---- MODULE Spec2Model ----
(***************************************************************************)
(* Model of the OpenSignals labelling session: the state held by           *)
(* useChartData / useChartNavigation / useSegmentManagement and the        *)
(* handlers of OpenSignalsChart that edit it (load, reset, insert, crop,   *)
(* edge drag, delete).                                                     *)
(*                                                                         *)
(* Time.  The program keeps times as floating-point seconds.  The model    *)
(* counts integer ticks, TicksPerSecond ticks to the second, so that the   *)
(* 0.01 s minimum separation of the drag code is Eps = 3 ticks and a       *)
(* segment can be narrower than it.  Absolute (wall-clock) times are       *)
(* counted in the same ticks, so the code's "* 1000" and "/ 1000" between  *)
(* seconds and milliseconds are exact changes of unit.                     *)
(*                                                                         *)
(* A nullable value is None (null / undefined) or Some(v).                 *)
(*                                                                         *)
(* Specifications.  Spec: load, reset and the two forms (insert, crop) on  *)
(* short recordings.  SpecDrag: load, reset and the pointer / keyboard     *)
(* gestures (select, edge drag, delete) on a longer recording.             *)
(***************************************************************************)
EXTENDS Integers, Sequences, FiniteSets, TLC

TicksPerSecond == 3 * 100

\* 0.01 s, the separation used by the drag clamps
Eps == 3

\* cap on displayed points (sampleStep computation)
SampleCap == 10000

\* the view window opened after a load or a crop: 10 s
ViewWindow == 3000

\* the width QuickAppend proposes: 0.2 s
QuickAddWidth == 60

\* Channel values are counted in units of 1e-7; the sixth decimal, the last
\* one a signal export writes, is FixedStep units.
FixedStep == 10

\* ---- bounds of the model ----
MaxSegs == 3
\* proposed and typed times range over -TimeSlack .. last sample + TimeSlack
TimeSlack == 1
\* edge-grab threshold of findEdgeNearMouse, in ticks
MaxThreshold == 1
\* lines of a label file in the direct calls of the Label Segment Builder
MaxRows == 3
\* lines of a signal file in the direct calls of the Sample Stream Decoder
MaxLines == 3
\* the short recordings of the decimation runs have up to MaxCount samples
MaxCount == 25

None == <<>>
Some(v) == <<v>>
Val(o) == o[1]

Min(a, b) == IF a <= b THEN a ELSE b
Max(a, b) == IF a >= b THEN a ELSE b

Seg(s, e, l) == [start |-> s, end |-> e, label |-> l]
Point(t, v) == [timestamp |-> t, A4 |-> v]

\* Array.prototype.filter on the elements
Filter(seq, Keep(_)) == SelectSeq(seq, Keep)

\* Array.prototype.map
MapSeq(seq, F(_)) == [i \in 1..Len(seq) |-> F(seq[i])]

\* ---- input files ----
\* A signal file after the header scan: the sampling rate and absolute start
\* read from the header, and the lines after "# EndOfHeader"; a line is a
\* data row with >= 11 fields (ok) or a blank / short line.
SignalRow(ok, v) == [ok |-> ok, A4 |-> v]
SignalFile(rate, start, rows) == [samplingRate |-> rate, start |-> start, rows |-> rows]

\* A label file: recording start and sampling rate of its header, and the
\* lines after the header.  A line with four fields has a timestamp column
\* (ts, None when it is not a finite number), an elapsed-time column and a
\* label; a line with fewer fields, a blank line or a comment has no label.
LabelRow(t, l) == [ts |-> Some(t), elapsed |-> None, label |-> l]
\* a row whose timestamp column is not a number and whose elapsed column is
ElapsedRow(e, l) == [ts |-> None, elapsed |-> Some(e), label |-> l]
\* a row with neither a timestamp nor an elapsed time that is a number
UntimedRow(l) == [ts |-> None, elapsed |-> None, label |-> l]
\* a line that is blank, a comment or has fewer than four fields
ShortLabelRow == [ts |-> None, elapsed |-> None, label |-> ""]
LabelFile(start, rate, rows) == [start |-> start, samplingRate |-> rate, rows |-> rows]
\* a label file with no text at all
EmptyLabelFile == [start |-> None, samplingRate |-> 0, rows |-> <<>>]

\* Files of the editing sessions: samples at 0, 1, 2, 3, samples at 0, 3, and
\* a file whose only row is not a sample.
SignalFiles ==
  { SignalFile(300, Some(50), <<SignalRow(TRUE, 5), SignalRow(TRUE, 7),
                                SignalRow(TRUE, 6), SignalRow(TRUE, 4)>>),
    SignalFile(100, Some(50), <<SignalRow(TRUE, 5), SignalRow(TRUE, 7)>>),
    SignalFile(100, Some(50), <<SignalRow(FALSE, 0)>>) }
LabelFiles ==
  { LabelFile(Some(50), 300, <<LabelRow(50, "up"), LabelRow(51, "dn"), LabelRow(52, "up")>>),
    LabelFile(Some(49), 300, <<LabelRow(50, "up"), LabelRow(53, "up")>>),
    LabelFile(Some(50), 100, <<LabelRow(51, "dn")>>) }

\* Files of the export sessions: samples at 0, 3 with channel values that
\* have a seventh decimal; segments [0, 1) dn and [1, 3) up.
ExportSignalFiles ==
  { SignalFile(100, start, <<SignalRow(TRUE, 12), SignalRow(TRUE, 27)>>) :
      start \in {Some(50), None} }
ExportLabelFiles ==
  { LabelFile(start, 300, <<LabelRow(50, "dn"), LabelRow(51, "up"), LabelRow(53, "up")>>) :
      start \in {Some(49), None} }

\* Inputs of the direct calls of the Label Segment Builder: signals of 0, 1
\* and 3 samples (at 0, 1, 2) that start at absolute time 1, and every label
\* file of up to MaxRows lines with timestamps from 0 to 4.
BuilderSignalFiles ==
  { SignalFile(300, Some(1), <<>>),
    SignalFile(300, Some(1), <<SignalRow(TRUE, 5)>>),
    SignalFile(300, Some(1), <<SignalRow(TRUE, 5), SignalRow(TRUE, 7), SignalRow(TRUE, 6)>>),
    SignalFile(300, None, <<SignalRow(TRUE, 5), SignalRow(TRUE, 7), SignalRow(TRUE, 6)>>) }
BuilderRows ==
  {LabelRow(t, l) : t \in 0..4, l \in {"up", "dn"}}
    \cup {ElapsedRow(1, "up"), ShortLabelRow}
BuilderLabelFiles ==
  {EmptyLabelFile}
    \cup {LabelFile(start, rate, rows) :
            start \in {Some(1), None}, rate \in {300, 100},
            rows \in UNION {[1..n -> BuilderRows] : n \in 0..MaxRows}}

\* Files of the drag sessions: samples at 0, 3, 6, 9.
DragSignalFiles ==
  { SignalFile(100, Some(50), <<SignalRow(TRUE, 5), SignalRow(TRUE, 7),
                                SignalRow(TRUE, 6), SignalRow(TRUE, 4)>>) }
DragLabelFiles ==
  { LabelFile(Some(50), 300, <<LabelRow(52, "up"), LabelRow(53, "dn"), LabelRow(54, "up")>>),
    LabelFile(Some(50), 100, <<LabelRow(50, "up"), LabelRow(54, "up"),
                               LabelRow(55, "dn"), LabelRow(59, "dn")>>) }

\* labels as typed into the form, and String.prototype.trim on them
LabelInputs == {"up", " dn ", " "}
Trim(l) == CASE l = " dn " -> "dn" [] l = " " -> "" [] OTHER -> l

\* a text field: a number, a non-numeric text, or the empty string
Num(n) == [kind |-> "num", val |-> n]
NaNText == [kind |-> "nan", val |-> 0]
EmptyText == [kind |-> "empty", val |-> 0]

VARIABLES
  rawData,                  \* useChartData: full-resolution samples
  data,                     \* useChartData: decimated samples (display)
  labelSegments,            \* useChartData
  error,                    \* useChartData
  yRange,                   \* useChartData
  signalStartTimestampMs,   \* useChartData
  keypressStartTimestampMs, \* useChartData
  keypressSamplingRate,     \* useChartData
  signalSamplingRate,       \* useChartData
  xDomain,                  \* useChartNavigation
  draggingEdge,             \* useSegmentManagement
  selectedSegmentIndex,     \* useSegmentManagement
  crashed,                  \* an updater threw: React unmounts the tree
  lastOp,                   \* history: the last handler that ran, its outcome
                            \* and (for an accepted insert or crop) its arguments
  loading,                  \* useChartData
  reads,                    \* processFiles: the two file reads in flight
  download,                 \* the files the last handler handed to the browser
  kept,                     \* the exported files the user keeps to load again,
                            \* each with the session it was written from
  call                      \* a direct call of the Label Segment Builder:
                            \* its arguments and its result

vars == <<rawData, data, labelSegments, error, yRange, signalStartTimestampMs,
          keypressStartTimestampMs, keypressSamplingRate, signalSamplingRate,
          xDomain, draggingEdge, selectedSegmentIndex, crashed, lastOp,
          loading, reads, download, kept, call>>

loadVars == <<loading, reads>>

\* a handler that hands no file to the browser and starts no export
NoExport == download' = None /\ UNCHANGED kept

\* op: the handler and its outcome; a, b, label: the arguments of an accepted
\* insert or crop; n: the number of segments before it; rep: an accepted insert
\* that repeats the arguments of the accepted insert just before it; cls: what
\* is wrong with the input of an insert or crop (InputClass), {} if nothing;
\* pristine: the segments and samples are as the load left them; rt: the load
\* read back a file exported from the same unedited session ("labels",
\* "signals"), "" otherwise; ordered: the rows of the label file loaded were in
\* time order.
Op(name) == [op |-> name, a |-> 0, b |-> 0, label |-> "", n |-> 0, rep |-> FALSE, cls |-> {},
             pristine |-> FALSE, ordered |-> FALSE, rt |-> ""]

\* ---- classification of the input of Insert and Crop, for the history ----
BlankLabels == {"", " "}
InputClass(startTime, endTime, samples) ==
  IF startTime = None \/ endTime = None THEN {"nan"}
  ELSE LET s == Val(startTime)
           e == Val(endTime)
           timeMin == samples[1].timestamp
           timeMax == samples[Len(samples)].timestamp
       IN (IF s = e THEN {"equal"} ELSE {})
          \cup (IF s > e THEN {"reversed"} ELSE {})
          \cup (IF s < timeMin \/ s > timeMax \/ e < timeMin \/ e > timeMax
                THEN {"outside"} ELSE {})
          \cup (IF \A i \in 1..Len(samples) :
                     samples[i].timestamp < s \/ samples[i].timestamp > e
                THEN {"nosample"} ELSE {})

\* ---- decimation ----
sampleStep(n) == Max(1, n \div SampleCap)
Decimate(seq) ==
  LET step == sampleStep(Len(seq))
      cnt == (Len(seq) + step - 1) \div step
  IN [k \in 1..cnt |-> seq[(k - 1) * step + 1]]

\* ---- Sample Stream Decoder (processFiles) ----
\* timestamp = (i - dataStartIndex) * sampleInterval for line i
DecodeRows(file) ==
  LET sampleInterval == TicksPerSecond \div file.samplingRate
      idx == Filter([i \in 1..Len(file.rows) |-> i], LAMBDA i : file.rows[i].ok)
  IN [k \in 1..Len(idx) |-> Point((idx[k] - 1) * sampleInterval, file.rows[idx[k]].A4)]

RECURSIVE MinA4(_)
MinA4(seq) == IF Len(seq) = 1 THEN seq[1].A4 ELSE Min(seq[1].A4, MinA4(Tail(seq)))
RECURSIVE MaxA4(_)
MaxA4(seq) == IF Len(seq) = 1 THEN seq[1].A4 ELSE Max(seq[1].A4, MaxA4(Tail(seq)))

\* ---- Label Segment Builder (parseKeypressLabelSegmentsWithMetadata) ----
\* the absolute time of a row: its timestamp column, else recording start +
\* elapsed, else none (the row is skipped)
absoluteTimestampMs(row, recordingStart) ==
  IF row.ts # None THEN row.ts
  ELSE IF recordingStart # None /\ row.elapsed # None
    THEN Some(Val(recordingStart) + Val(row.elapsed))
  ELSE None

\* RunLength that starts a new segment at every row
RECURSIVE RunLengthNoMerge(_, _, _, _)
RunLengthNoMerge(rows, recordingStart, sigStart, cur) ==
  IF rows = <<>> THEN <<>>
  ELSE IF Head(rows).label = "" \/ absoluteTimestampMs(Head(rows), recordingStart) = None
    THEN RunLengthNoMerge(Tail(rows), recordingStart, sigStart, cur)
  ELSE LET rel == Val(absoluteTimestampMs(Head(rows), recordingStart)) - sigStart
       IN <<Seg(rel, rel, Head(rows).label)>>
          \o RunLengthNoMerge(Tail(rows), recordingStart, sigStart, cur)

\* the rows of a label file that have an absolute time are in time order
TimeOrdered(file) ==
  LET timed == SelectSeq(file.rows, LAMBDA r :
                           r.label # "" /\ absoluteTimestampMs(r, file.start) # None)
  IN \A i \in 1..(Len(timed) - 1) :
       Val(absoluteTimestampMs(timed[i], file.start))
         <= Val(absoluteTimestampMs(timed[i + 1], file.start))

\* run-length encoding of the rows, on the signal's relative timeline
RECURSIVE RunLength(_, _, _, _)
RunLength(rows, recordingStart, sigStart, cur) ==
  IF rows = <<>> THEN
    (IF cur = None THEN <<>>
     ELSE <<[Val(cur) EXCEPT !.end = Max(Val(cur).end, Val(cur).start)]>>)
  ELSE IF Head(rows).label = "" \/ absoluteTimestampMs(Head(rows), recordingStart) = None
    THEN RunLength(Tail(rows), recordingStart, sigStart, cur)
  ELSE
    LET rel == Val(absoluteTimestampMs(Head(rows), recordingStart)) - sigStart
        l == Head(rows).label
    IN IF cur = None
         THEN RunLength(Tail(rows), recordingStart, sigStart, Some(Seg(rel, rel, l)))
       ELSE IF Val(cur).label = l
         THEN RunLength(Tail(rows), recordingStart, sigStart,
                        Some([Val(cur) EXCEPT !.end = rel]))
         ELSE <<[Val(cur) EXCEPT !.end = Max(Val(cur).end, Val(cur).start)]>>
              \o RunLength(Tail(rows), recordingStart, sigStart, Some(Seg(rel, rel, l)))

\* NothingToAlign without the test of the signal start
NothingToAlignTextOnly(file, sigStart) == file = EmptyLabelFile

\* the two early returns: no label text, or no absolute start of the signal
NothingToAlign(file, sigStart) == file = EmptyLabelFile \/ sigStart = None

\* a nullable number in arithmetic: null counts as 0
NumberOf(o) == IF o = None THEN 0 ELSE Val(o)

\* ClipToRange that does not clip the end
ClipToRangeOpenEnd(segment, sampleIntervalSec, rangeStart, rangeEnd) ==
  Seg(Max(rangeStart, segment.start),
      Max(segment.end, segment.start + sampleIntervalSec),
      segment.label)

\* the map over rawSegments: expand to one sample interval, clip to the range
ClipToRange(segment, sampleIntervalSec, rangeStart, rangeEnd) ==
  LET minEnd == segment.start + sampleIntervalSec
      expandedEnd == Max(segment.end, minEnd)
      clampedStart == Max(rangeStart, segment.start)
      clampedEnd == Min(rangeEnd, expandedEnd)
  IN Seg(clampedStart, clampedEnd, segment.label)

parseKeypressLabelSegmentsWithMetadata(file, sigStart, rangeStart, rangeEnd) ==
  IF NothingToAlign(file, sigStart)
  THEN [segments |-> <<>>, keypressStartTimestampMs |-> None, samplingRate |-> 1000]
  ELSE
    LET sampleIntervalSec == TicksPerSecond \div file.samplingRate
        rawSegments == RunLength(file.rows, file.start, NumberOf(sigStart), None)
        Clip(s) == ClipToRange(s, sampleIntervalSec, rangeStart, rangeEnd)
    IN [segments |-> IF rangeEnd <= rangeStart THEN <<>>
                     ELSE Filter(MapSeq(rawSegments, Clip), LAMBDA s : s.end > s.start),
        keypressStartTimestampMs |-> file.start,
        samplingRate |-> file.samplingRate]

InitSession ==
  /\ rawData = <<>>
  /\ data = <<>>
  /\ labelSegments = <<>>
  /\ error = None
  /\ yRange = None
  /\ signalStartTimestampMs = None
  /\ keypressStartTimestampMs = None
  /\ keypressSamplingRate = 1000
  /\ signalSamplingRate = 1000
  /\ xDomain = None
  /\ draggingEdge = None
  /\ selectedSegmentIndex = None
  /\ crashed = FALSE
  /\ lastOp = Op("Init")
  /\ loading = FALSE
  /\ reads = None
  /\ download = None
  /\ kept = [signals |-> None, labels |-> None]

Init == InitSession /\ call = None

\* The chart, the forms and the buttons are rendered only when there are
\* samples and no load is running; otherwise the upload screen or the
\* "Loading data..." screen is.
ChartShown == ~crashed /\ Len(rawData) > 0 /\ ~loading
UploadShown == ~crashed /\ Len(rawData) = 0 /\ ~loading

\* Whether a load reads back a kept file: the label file against the signal
\* it was exported with, or the signal file.
RoundTrip(sf, lf, samples, sigStart) ==
  IF /\ kept.labels # None /\ lf = Val(kept.labels).file
     /\ samples = Val(kept.labels).from.rawData
     /\ sigStart = Val(kept.labels).from.signalStartTimestampMs
    THEN "labels"
  ELSE IF kept.signals # None /\ sf = Val(kept.signals).file
    THEN "signals"
  ELSE ""

\* handleLoadFiles: the "Load Files" button of the upload screen, enabled
\* when both files are chosen; processFiles up to the await of the two reads
handleLoadFiles(sf, lf) ==
  /\ UploadShown
  /\ reads = None
  /\ loading' = TRUE
  /\ error' = None
  /\ reads' = Some([signalFile |-> sf, keypressFile |-> lf, pending |-> {"signal", "keypress"}])
  /\ lastOp' = Op("LoadStart")
  /\ UNCHANGED <<rawData, data, labelSegments, yRange, signalStartTimestampMs,
                 keypressStartTimestampMs, keypressSamplingRate, signalSamplingRate,
                 xDomain, draggingEdge, selectedSegmentIndex, crashed, call>>
  /\ NoExport

\* processFiles after Promise.all has resolved, then the view window of
\* handleLoadFiles
processFiles(sf, lf) ==
  /\ LET fullResData == DecodeRows(sf)
         timeMin == IF Len(fullResData) > 0 THEN fullResData[1].timestamp ELSE 0
         timeMax == IF Len(fullResData) > 0 THEN fullResData[Len(fullResData)].timestamp ELSE 0
         result == parseKeypressLabelSegmentsWithMetadata(lf, sf.start, timeMin, timeMax)
     IN /\ rawData' = fullResData
        /\ data' = Decimate(fullResData)
        /\ yRange' = IF Len(fullResData) > 0
                       THEN <<MinA4(fullResData), MaxA4(fullResData)>> ELSE None
        /\ labelSegments' = result.segments
        /\ signalStartTimestampMs' = sf.start
        /\ keypressStartTimestampMs' = result.keypressStartTimestampMs
        /\ keypressSamplingRate' = result.samplingRate
        /\ signalSamplingRate' = sf.samplingRate
        /\ xDomain' = <<timeMin, timeMin + Min(Max(timeMax - timeMin, 0), ViewWindow)>>
        /\ lastOp' = [Op("Load") EXCEPT !.pristine = TRUE,
                                        !.ordered = TimeOrdered(lf),
                                        !.rt = RoundTrip(sf, lf, fullResData, sf.start)]
  /\ loading' = FALSE
  /\ UNCHANGED error

\* ReadFulfilled that parses as soon as one read has completed
ReadFulfilledEager(which) ==
  /\ ~crashed
  /\ reads # None
  /\ which \in Val(reads).pending
  /\ processFiles(Val(reads).signalFile, Val(reads).keypressFile)
  /\ reads' = None
  /\ UNCHANGED <<draggingEdge, selectedSegmentIndex, crashed, call>>
  /\ NoExport

\* One of the two reads of Promise.all completes.  The continuation of the
\* await runs when the second one has.
ReadFulfilled(which) ==
  /\ ~crashed
  /\ reads # None
  /\ which \in Val(reads).pending
  /\ IF Val(reads).pending = {which}
     THEN /\ processFiles(Val(reads).signalFile, Val(reads).keypressFile)
          /\ reads' = None
     ELSE /\ reads' = Some([Val(reads) EXCEPT !.pending = @ \ {which}])
          /\ lastOp' = Op("ReadDone")
          /\ UNCHANGED <<rawData, data, labelSegments, error, yRange, signalStartTimestampMs,
                         keypressStartTimestampMs, keypressSamplingRate, signalSamplingRate,
                         xDomain, loading>>
  /\ UNCHANGED <<draggingEdge, selectedSegmentIndex, crashed, call>>
  /\ NoExport

\* One of the two reads fails: Promise.all rejects at once and the catch
\* block runs; the other read's result is never looked at.
ReadRejected(which) ==
  /\ ~crashed
  /\ reads # None
  /\ which \in Val(reads).pending
  /\ error' = Some("read failed")
  /\ loading' = FALSE
  /\ reads' = None
  /\ lastOp' = Op("LoadFailed")
  /\ UNCHANGED <<rawData, data, labelSegments, yRange, signalStartTimestampMs,
                 keypressStartTimestampMs, keypressSamplingRate, signalSamplingRate,
                 xDomain, draggingEdge, selectedSegmentIndex, crashed, call>>
  /\ NoExport

\* the load of a pair of files, from the button to the end of both reads
Load(signalFiles, labelFiles) ==
  \/ \E sf \in signalFiles, lf \in labelFiles : handleLoadFiles(sf, lf)
  \/ \E which \in {"signal", "keypress"} : ReadFulfilled(which)
  \/ \E which \in {"signal", "keypress"} : ReadRejected(which)

resetAll ==
  /\ ChartShown
  /\ rawData' = <<>>
  /\ data' = <<>>
  /\ labelSegments' = <<>>
  /\ yRange' = None
  /\ error' = None
  /\ signalStartTimestampMs' = None
  /\ keypressStartTimestampMs' = None
  /\ keypressSamplingRate' = 1000
  /\ signalSamplingRate' = 1000
  /\ lastOp' = Op("Reset")
  /\ UNCHANGED <<xDomain, draggingEdge, selectedSegmentIndex, crashed, loadVars, call>>
  /\ NoExport

\* ---- Insert (handleAddNewSegment) ----
parseFloat(text) == IF text.kind = "num" THEN Some(text.val) ELSE None

Overlaps(segment, startTime, endTime) ==
  ~(segment.end <= startTime \/ segment.start >= endTime)

\* ResolveOverlap with a slip in the split case: the right piece starts at the
\* new segment's start instead of its end
ResolveOverlapSplitSlip(segment, startTime, endTime) ==
  IF segment.end <= startTime \/ segment.start >= endTime THEN <<segment>>
  ELSE IF startTime <= segment.start /\ endTime >= segment.end THEN <<>>
  ELSE IF segment.start < startTime /\ segment.end > endTime
    THEN <<[segment EXCEPT !.end = startTime], [segment EXCEPT !.start = startTime]>>
  ELSE IF startTime <= segment.start /\ endTime < segment.end
    THEN <<[segment EXCEPT !.start = endTime]>>
  ELSE <<[segment EXCEPT !.end = startTime]>>

\* what the loop body pushes for one existing segment
ResolveOverlap(segment, startTime, endTime) ==
  IF ~Overlaps(segment, startTime, endTime) THEN <<segment>>
  ELSE IF startTime <= segment.start /\ endTime >= segment.end THEN <<>>
  ELSE IF segment.start < startTime /\ segment.end > endTime
    THEN <<[segment EXCEPT !.end = startTime], [segment EXCEPT !.start = endTime]>>
  ELSE IF startTime <= segment.start /\ endTime < segment.end
    THEN <<[segment EXCEPT !.start = endTime]>>
  ELSE IF startTime > segment.start /\ endTime >= segment.end
    THEN <<[segment EXCEPT !.end = startTime]>>
  ELSE <<>>

RECURSIVE processedSegments(_, _, _)
processedSegments(segs, startTime, endTime) ==
  IF segs = <<>> THEN <<>>
  ELSE ResolveOverlap(Head(segs), startTime, endTime)
       \o processedSegments(Tail(segs), startTime, endTime)

\* Array.prototype.sort((a, b) => a.start - b.start): a stable sort
RECURSIVE InsertByStart(_, _)
InsertByStart(sorted, x) ==
  IF sorted = <<>> THEN <<x>>
  ELSE IF Head(sorted).start <= x.start
    THEN <<Head(sorted)>> \o InsertByStart(Tail(sorted), x)
    ELSE <<x>> \o sorted
RECURSIVE SortByStart(_)
SortByStart(segs) ==
  IF segs = <<>> THEN <<>>
  ELSE InsertByStart(SortByStart(SubSeq(segs, 1, Len(segs) - 1)), segs[Len(segs)])

InsertSegment(segs, startTime, endTime, label) ==
  SortByStart(processedSegments(segs, startTime, endTime)
              \o <<Seg(startTime, endTime, label)>>)

\* InsertError with "startTime > endTime" in place of "startTime >= endTime"
InsertErrorStrict(startStr, endStr, label, timeMin, timeMax) ==
  LET startTime == parseFloat(startStr)
      endTime == parseFloat(endStr)
  IN IF Trim(label) = "" THEN Some("Please enter a label for the new segment.")
     ELSE IF startTime = None \/ endTime = None
       THEN Some("Invalid segment times. Please enter valid numbers.")
     ELSE IF Val(startTime) > Val(endTime)
       THEN Some("Segment start time must be less than end time.")
     ELSE IF Val(startTime) < timeMin \/ Val(endTime) > timeMax
       THEN Some("Segment times must be within data range.")
     ELSE None

\* the validation of handleAddNewSegment: None when the input is accepted
InsertError(startStr, endStr, label, timeMin, timeMax) ==
  LET startTime == parseFloat(startStr)
      endTime == parseFloat(endStr)
  IN IF Trim(label) = "" THEN Some("Please enter a label for the new segment.")
     ELSE IF startTime = None \/ endTime = None
       THEN Some("Invalid segment times. Please enter valid numbers.")
     ELSE IF Val(startTime) >= Val(endTime)
       THEN Some("Segment start time must be less than end time.")
     ELSE IF Val(startTime) < timeMin \/ Val(endTime) > timeMax
       THEN Some("Segment times must be within data range.")
     ELSE None

handleAddNewSegment(startStr, endStr, label) ==
  /\ ChartShown
  /\ IF Len(data) = 0
     THEN /\ lastOp' = Op("InsertNoData")
          /\ UNCHANGED <<labelSegments, error>>
     ELSE LET timeMin == data[1].timestamp
              timeMax == data[Len(data)].timestamp
              err == InsertError(startStr, endStr, label, timeMin, timeMax)
              cls == (InputClass(parseFloat(startStr), parseFloat(endStr), rawData)
                        \ {"nosample"})
                     \cup (IF label \in BlankLabels THEN {"blank"} ELSE {})
          IN IF err # None
             THEN /\ error' = err
                  /\ lastOp' = [Op("InsertRejected") EXCEPT !.cls = cls]
                  /\ UNCHANGED labelSegments
             ELSE LET newSegments == InsertSegment(labelSegments, startStr.val,
                                                   endStr.val, Trim(label))
                  IN /\ Len(newSegments) <= MaxSegs
                     /\ labelSegments' = newSegments
                     /\ error' = None
                     /\ lastOp' = [op |-> "InsertOk", a |-> startStr.val, b |-> endStr.val,
                                    label |-> Trim(label), n |-> Len(labelSegments),
                                    rep |-> /\ lastOp.op = "InsertOk"
                                            /\ lastOp.a = startStr.val
                                            /\ lastOp.b = endStr.val
                                            /\ lastOp.label = Trim(label),
                                    cls |-> cls, pristine |-> FALSE,
                                    ordered |-> FALSE, rt |-> ""]
  /\ UNCHANGED <<rawData, data, yRange, signalStartTimestampMs, keypressStartTimestampMs,
                 keypressSamplingRate, signalSamplingRate, xDomain, draggingEdge,
                 selectedSegmentIndex, crashed, loadVars, call>>
  /\ NoExport

\* ---- edge drag (useSegmentManagement) ----
\* DragUpdate that moves only the dragged segment's edge
DragUpdateAlone(segs, segmentIndex, edge, newTime) ==
  LET i == segmentIndex + 1
      segment == segs[i]
  IN IF edge = "start"
     THEN IF segmentIndex - 1 >= 0
          THEN [segs EXCEPT ![i].start = Max(segs[i - 1].start + Eps,
                                             Min(newTime, segment.end - Eps))]
          ELSE [segs EXCEPT ![i].start = Min(newTime, segment.end - Eps)]
     ELSE IF segmentIndex + 1 < Len(segs)
          THEN [segs EXCEPT ![i].end = Min(segs[i + 1].end - Eps,
                                           Max(newTime, segment.start + Eps))]
          ELSE [segs EXCEPT ![i].end = Max(newTime, segment.start + Eps)]

\* The updater of handleMouseMove, for an index inside the list.
\* segmentIndex is 0-based as in the code.
DragUpdate(segs, segmentIndex, edge, newTime) ==
  LET i == segmentIndex + 1
      segment == segs[i]
  IN IF edge = "start"
     THEN IF segmentIndex - 1 >= 0
          THEN LET prevSegment == segs[i - 1]
                   constrainedTime == Max(prevSegment.start + Eps,
                                          Min(newTime, segment.end - Eps))
               IN [segs EXCEPT ![i].start = constrainedTime,
                               ![i - 1].end = constrainedTime]
          ELSE [segs EXCEPT ![i].start = Min(newTime, segment.end - Eps)]
     ELSE IF segmentIndex + 1 < Len(segs)
          THEN LET nextSegment == segs[i + 1]
                   constrainedTime == Min(nextSegment.end - Eps,
                                          Max(newTime, segment.start + Eps))
               IN [segs EXCEPT ![i].end = constrainedTime,
                               ![i + 1].start = constrainedTime]
          ELSE [segs EXCEPT ![i].end = Max(newTime, segment.start + Eps)]

\* document "mousemove" while a drag is active.  With an index that is no
\* longer in the list, segment is undefined and reading segment.end /
\* segment.start throws inside the updater.
DragMouseMove(newTime) ==
  /\ ~crashed
  /\ draggingEdge # None
  /\ LET d == Val(draggingEdge)
     IN IF d.segmentIndex < Len(labelSegments)
        THEN /\ labelSegments' = DragUpdate(labelSegments, d.segmentIndex, d.edge, newTime)
             /\ lastOp' = Op("DragMove")
             /\ UNCHANGED crashed
        ELSE /\ crashed' = TRUE
             /\ lastOp' = Op("DragThrow")
             /\ UNCHANGED labelSegments
  /\ UNCHANGED <<rawData, data, error, yRange, signalStartTimestampMs,
                 keypressStartTimestampMs, keypressSamplingRate, signalSamplingRate,
                 xDomain, draggingEdge, selectedSegmentIndex, loadVars, call>>
  /\ NoExport

\* document "mouseup" while a drag is active
DragMouseUp ==
  /\ ~crashed
  /\ draggingEdge # None
  /\ draggingEdge' = None
  /\ lastOp' = Op("MouseUp")
  /\ UNCHANGED <<rawData, data, labelSegments, error, yRange, signalStartTimestampMs,
                 keypressStartTimestampMs, keypressSamplingRate, signalSamplingRate,
                 xDomain, selectedSegmentIndex, crashed, loadVars, call>>
  /\ NoExport

Abs(x) == IF x < 0 THEN -x ELSE x

\* first edge within timeThreshold of the pointer, among the segments that
\* intersect the view; the start edge of a segment is tried before its end
findEdgeNearMouse(segs, time, timeThreshold, currentDomain) ==
  LET Near(i) == /\ ~(segs[i].end < currentDomain[1] \/ segs[i].start > currentDomain[2])
                 /\ \/ Abs(time - segs[i].start) <= timeThreshold
                    \/ Abs(time - segs[i].end) <= timeThreshold
      hits == {i \in 1..Len(segs) : Near(i)}
  IN IF hits = {} THEN None
     ELSE LET i == CHOOSE j \in hits : \A k \in hits : j <= k
          IN Some([segmentIndex |-> i - 1,
                   edge |-> IF Abs(time - segs[i].start) <= timeThreshold
                            THEN "start" ELSE "end"])

findSegmentAtMouse(segs, time) ==
  LET hits == {i \in 1..Len(segs) : time >= segs[i].start /\ time <= segs[i].end}
  IN IF hits = {} THEN None
     ELSE Some((CHOOSE j \in hits : \A k \in hits : j <= k) - 1)

\* handleMouseDown on the chart (left button), pointer at `time` of the view.
\* (A pointer outside the plot area only clears the selection, as Escape does;
\* the pan that starts when nothing is hit belongs to the view, not modelled.)
handleMouseDown(time, timeThreshold) ==
  /\ ChartShown
  /\ LET timeMin == IF Len(data) > 0 THEN data[1].timestamp ELSE 0
         timeMax == IF Len(data) > 0 THEN data[Len(data)].timestamp ELSE 0
         currentDomain == IF xDomain = None THEN <<timeMin, timeMax>> ELSE xDomain
         edge == findEdgeNearMouse(labelSegments, time, timeThreshold, currentDomain)
     IN /\ time >= currentDomain[1] /\ time <= currentDomain[2]
        /\ IF edge # None
           THEN /\ draggingEdge' = edge
                /\ lastOp' = Op("GrabEdge")
                /\ UNCHANGED selectedSegmentIndex
           ELSE /\ selectedSegmentIndex' = findSegmentAtMouse(labelSegments, time)
                /\ lastOp' = Op("Select")
                /\ UNCHANGED draggingEdge
  /\ UNCHANGED <<rawData, data, labelSegments, error, yRange, signalStartTimestampMs,
                 keypressStartTimestampMs, keypressSamplingRate, signalSamplingRate,
                 xDomain, crashed, loadVars, call>>
  /\ NoExport

\* ---- Delete / Backspace / Escape (handleKeyDown) ----
\* DeleteAt that moves the next segment's start to close the gap
DeleteAtStitch(segs, index) ==
  LET keep == Filter([i \in 1..Len(segs) |-> i], LAMBDA i : i - 1 # index)
  IN [k \in 1..Len(keep) |->
        IF keep[k] - 1 = index + 1
        THEN [segs[keep[k]] EXCEPT !.start = segs[index + 1].start]
        ELSE segs[keep[k]]]

DeleteAt(segs, index) ==
  LET keep == Filter([i \in 1..Len(segs) |-> i], LAMBDA i : i - 1 # index)
  IN [k \in 1..Len(keep) |-> segs[keep[k]]]

\* document "keydown".  With no selection the handler returns at once.
\* lastOp of a Delete keeps the index (a) and the length before (b).
handleKeyDown(key) ==
  /\ ~crashed
  /\ IF selectedSegmentIndex = None
     THEN /\ lastOp' = Op("KeyIgnored")
          /\ UNCHANGED <<labelSegments, selectedSegmentIndex>>
     ELSE IF key \in {"Delete", "Backspace"}
     THEN /\ labelSegments' = DeleteAt(labelSegments, Val(selectedSegmentIndex))
          /\ selectedSegmentIndex' = None
          /\ lastOp' = [Op("Delete") EXCEPT !.a = Val(selectedSegmentIndex),
                                            !.b = Len(labelSegments)]
     ELSE /\ selectedSegmentIndex' = None
          /\ lastOp' = Op("Escape")
          /\ UNCHANGED labelSegments
  /\ UNCHANGED <<rawData, data, error, yRange, signalStartTimestampMs,
                 keypressStartTimestampMs, keypressSamplingRate, signalSamplingRate,
                 xDomain, draggingEdge, crashed, loadVars, call>>
  /\ NoExport

\* ---- Crop (handleApplyCrop) ----
\* CropSamples that leaves out the sample at the end of the range
CropSamplesExclusive(samples, startTime, endTime) ==
  MapSeq(Filter(samples, LAMBDA point : point.timestamp >= startTime
                                        /\ point.timestamp < endTime),
         LAMBDA point : [point EXCEPT !.timestamp = point.timestamp - startTime])

CropSamples(samples, startTime, endTime) ==
  MapSeq(Filter(samples, LAMBDA point : point.timestamp >= startTime
                                        /\ point.timestamp <= endTime),
         LAMBDA point : [point EXCEPT !.timestamp = point.timestamp - startTime])

\* CropSegments that clips the segments and does not shift them
CropSegmentsNoShift(segs, startTime, endTime) ==
  Filter(MapSeq(segs, LAMBDA segment :
                  [segment EXCEPT !.start = Max(segment.start, startTime),
                                  !.end = Min(segment.end, endTime)]),
         LAMBDA segment : segment.end > segment.start)

CropSegments(segs, startTime, endTime) ==
  Filter(MapSeq(segs, LAMBDA segment :
                  [segment EXCEPT !.start = Max(segment.start, startTime) - startTime,
                                  !.end = Min(segment.end, endTime) - startTime]),
         LAMBDA segment : segment.end > segment.start)

\* the bound a crop field stands for: the data bound when the field is empty
CropBound(text, default) == IF text.kind = "empty" THEN Some(default) ELSE parseFloat(text)

\* the validation of handleApplyCrop: None when the crop is accepted
CropError(samples, startTime, endTime) ==
  LET timeMin == samples[1].timestamp
      timeMax == samples[Len(samples)].timestamp
  IN IF startTime = None \/ endTime = None
       THEN Some("Invalid crop times. Please enter valid numbers.")
     ELSE IF Val(startTime) >= Val(endTime)
       THEN Some("Crop start time must be less than end time.")
     ELSE IF Val(startTime) < timeMin \/ Val(endTime) > timeMax
       THEN Some("Crop times must be within data range.")
     ELSE IF CropSamples(samples, Val(startTime), Val(endTime)) = <<>>
       THEN Some("Crop range contains no data points.")
     ELSE None

\* ShiftStart that starts a missing absolute start at the offset
ShiftStartFromNull(prev, offsetMs) ==
  IF prev # None THEN Some(Val(prev) + offsetMs) ELSE Some(offsetMs)

ShiftStart(prev, offsetMs) == IF prev # None THEN Some(Val(prev) + offsetMs) ELSE prev

handleApplyCrop(cropStartStr, cropEndStr) ==
  /\ ChartShown
  /\ LET startTime == CropBound(cropStartStr, rawData[1].timestamp)
         endTime == CropBound(cropEndStr, rawData[Len(rawData)].timestamp)
         err == CropError(rawData, startTime, endTime)
     IN IF err # None
        THEN /\ error' = err
             /\ lastOp' = [Op("CropRejected") EXCEPT
                             !.cls = InputClass(startTime, endTime, rawData)]
             /\ UNCHANGED <<rawData, data, labelSegments, yRange, xDomain,
                            signalStartTimestampMs, keypressStartTimestampMs,
                            selectedSegmentIndex>>
        ELSE LET offset == Val(startTime)
                 normalizedRawData == CropSamples(rawData, offset, Val(endTime))
                 newTimeMin == normalizedRawData[1].timestamp
                 newTimeMax == normalizedRawData[Len(normalizedRawData)].timestamp
             IN /\ rawData' = normalizedRawData
                /\ data' = Decimate(normalizedRawData)
                /\ labelSegments' = CropSegments(labelSegments, offset, Val(endTime))
                /\ yRange' = <<MinA4(normalizedRawData), MaxA4(normalizedRawData)>>
                /\ xDomain' = <<newTimeMin, newTimeMin + Min(newTimeMax - newTimeMin, ViewWindow)>>
                /\ signalStartTimestampMs' = ShiftStart(signalStartTimestampMs, offset)
                /\ keypressStartTimestampMs' = ShiftStart(keypressStartTimestampMs, offset)
                /\ selectedSegmentIndex' = None
                /\ error' = None
                /\ lastOp' = [Op("CropOk") EXCEPT
                                !.a = offset, !.b = Val(endTime),
                                !.n = Len(labelSegments),
                                !.cls = InputClass(startTime, endTime, rawData)]
  /\ UNCHANGED <<keypressSamplingRate, signalSamplingRate, draggingEdge, crashed,
                 loadVars, call>>
  /\ NoExport

\* ---- QuickAppend (handleQuickAddSegment) ----
\* Number.prototype.toFixed(2) on a time, read back: the nearest 0.01 s
toFixed2(t) == ((2 * t + Eps) \div (2 * Eps)) * Eps

\* The "+" button at the end of segment `index` (0-based): fills the start and
\* end fields of the Add form, which the model keeps in the history only.
handleQuickAddSegment(index) ==
  /\ ChartShown
  /\ index < Len(labelSegments)
  /\ Len(data) > 0
  /\ LET startTime == labelSegments[index + 1].end
         timeMax == data[Len(data)].timestamp
         endTime == Min(startTime + QuickAddWidth, timeMax)
     IN lastOp' = [Op("QuickAdd") EXCEPT !.a = toFixed2(startTime), !.b = toFixed2(endTime)]
  /\ UNCHANGED <<rawData, data, labelSegments, error, yRange, signalStartTimestampMs,
                 keypressStartTimestampMs, keypressSamplingRate, signalSamplingRate,
                 xDomain, draggingEdge, selectedSegmentIndex, crashed, loadVars, call>>
  /\ NoExport

\* ---- Export (handleExportSignals, handleExportLabels, handleExportBoth) ----
\* Number.prototype.toFixed(6) on a channel value, read back by parseFloat
toFixed6(v) == ((2 * v + FixedStep) \div (2 * FixedStep)) * FixedStep

\* handleExportSignals that writes the displayed samples
handleExportSignalsShown(samples, sigStart, sigRate) ==
  IF Len(samples) = 0
    THEN [error |-> Some("No signal data to export"), file |-> None]
  ELSE IF sigStart = None
    THEN [error |-> Some("Missing timestamp metadata for export"), file |-> None]
  ELSE [error |-> None,
        file |-> Some(SignalFile(sigRate, sigStart,
                                 MapSeq(Decimate(samples), LAMBDA point :
                                          SignalRow(TRUE, toFixed6(point.A4)))))]

\* What handleExportSignals does with the state it sees: the error it sets
\* and the file it hands to the browser.  The header carries the sampling
\* rate and the absolute start; there is one row per full-resolution sample.
handleExportSignals(samples, sigStart, sigRate) ==
  IF Len(samples) = 0
    THEN [error |-> Some("No signal data to export"), file |-> None]
  ELSE IF sigStart = None
    THEN [error |-> Some("Missing timestamp metadata for export"), file |-> None]
  ELSE [error |-> None,
        file |-> Some(SignalFile(sigRate, sigStart,
                                 MapSeq(samples, LAMBDA point :
                                          SignalRow(TRUE, toFixed6(point.A4)))))]

\* segmentsForExport that keeps a segment clipped to no width
segmentsForExportKeepEmpty(samples, segs) ==
  LET dataStart == samples[1].timestamp
      dataEnd == samples[Len(samples)].timestamp
  IN Filter(MapSeq(segs, LAMBDA segment :
                     Seg(Max(segment.start, dataStart), Min(segment.end, dataEnd),
                         segment.label)),
            LAMBDA segment : segment.end >= segment.start)

\* the segments clipped to the full-resolution sample range
segmentsForExport(samples, segs) ==
  LET dataStart == samples[1].timestamp
      dataEnd == samples[Len(samples)].timestamp
  IN Filter(MapSeq(segs, LAMBDA segment :
                     Seg(Max(segment.start, dataStart), Min(segment.end, dataEnd),
                         segment.label)),
            LAMBDA segment : segment.end > segment.start)

\* CeilDiv that rounds down
CeilDivDown(a, b) == a \div b

\* Math.ceil(a / b) for b > 0
CeilDiv(a, b) == (a + b - 1) \div b

\* ExportRows that starts every segment's rows at the signal's start
RECURSIVE ExportRowsFromSignalStart(_, _, _, _)
ExportRowsFromSignalStart(segs, sigStart, kpStart, sampleIntervalMs) ==
  IF segs = <<>> THEN <<>>
  ELSE LET segment == Head(segs)
           numSamples == Max(1, CeilDiv(segment.end - segment.start, sampleIntervalMs))
       IN [i \in 1..numSamples |->
             LET timestampMs == sigStart + (i - 1) * sampleIntervalMs
             IN [ts |-> Some(timestampMs), elapsed |-> Some(timestampMs - kpStart),
                 label |-> segment.label]]
          \o ExportRowsFromSignalStart(Tail(segs), sigStart, kpStart, sampleIntervalMs)

\* the rows written for the segments: numSamples rows per segment, one
\* sample interval apart, from the segment's absolute start
RECURSIVE ExportRows(_, _, _, _)
ExportRows(segs, sigStart, kpStart, sampleIntervalMs) ==
  IF segs = <<>> THEN <<>>
  ELSE LET segment == Head(segs)
           segmentStartMs == sigStart + segment.start
           segmentEndMs == sigStart + segment.end
           segmentDurationMs == segmentEndMs - segmentStartMs
           numSamples == Max(1, CeilDiv(segmentDurationMs, sampleIntervalMs))
       IN [i \in 1..numSamples |->
             LET timestampMs == segmentStartMs + (i - 1) * sampleIntervalMs
             IN [ts |-> Some(timestampMs), elapsed |-> Some(timestampMs - kpStart),
                 label |-> segment.label]]
          \o ExportRows(Tail(segs), sigStart, kpStart, sampleIntervalMs)

\* the sample number written in front of each row: a counter from 0 that
\* runs on across the segments
Numbered(rows) ==
  [i \in 1..Len(rows) |->
     [sampleNumber |-> i - 1, ts |-> rows[i].ts, elapsed |-> rows[i].elapsed,
      label |-> rows[i].label]]

\* What handleExportLabels does with the state it sees.
handleExportLabels(samples, segs, sigStart, kpStart, kpRate) ==
  IF Len(samples) = 0
    THEN [error |-> Some("No signal data loaded for export"), file |-> None]
  ELSE IF Len(segs) = 0
    THEN [error |-> Some("No label segments to export"), file |-> None]
  ELSE IF sigStart = None \/ kpStart = None
    THEN [error |-> Some("Missing timestamp metadata for export"), file |-> None]
  ELSE IF segmentsForExport(samples, segs) = <<>>
    THEN [error |-> Some("No label segments within the cropped range to export"),
          file |-> None]
  ELSE [error |-> None,
        file |-> Some(LabelFile(kpStart, kpRate,
                                Numbered(ExportRows(segmentsForExport(samples, segs),
                                                    Val(sigStart), Val(kpStart),
                                                    TicksPerSecond \div kpRate))))]

\* the session a kept file was written from
Session ==
  [rawData |-> rawData, labelSegments |-> labelSegments,
   signalStartTimestampMs |-> signalStartTimestampMs,
   keypressSamplingRate |-> keypressSamplingRate, ordered |-> lastOp.ordered]

\* The "Export Data" button, enabled when there are segments and samples:
\* handleExportSignals now, handleExportLabels 100 ms later from a timer.
\* The timer runs the handler of this render, on the state of this render,
\* and neither handler changes what the other reads: the step takes both.
\* keep: the user keeps the files of a session nothing was edited in since
\* the load, to load them again.
handleExportBoth(keep) ==
  /\ ChartShown
  /\ Len(labelSegments) > 0
  /\ LET pristine == lastOp.op = "Load" \/ (lastOp.op = "ExportBoth" /\ lastOp.pristine)
         signals == handleExportSignals(rawData, signalStartTimestampMs, signalSamplingRate)
         labels == handleExportLabels(rawData, labelSegments, signalStartTimestampMs,
                                      keypressStartTimestampMs, keypressSamplingRate)
         Kept(outcome, old) == IF keep /\ pristine /\ outcome.file # None
                               THEN Some([file |-> Val(outcome.file), from |-> Session])
                               ELSE old
     IN /\ error' = IF labels.error # None THEN labels.error
                     ELSE IF signals.error # None THEN signals.error
                     ELSE error
        /\ download' = Some([signals |-> signals.file, labels |-> labels.file])
        /\ kept' = [signals |-> Kept(signals, kept.signals),
                    labels |-> Kept(labels, kept.labels)]
        /\ lastOp' = [Op("ExportBoth") EXCEPT !.pristine = pristine,
                                              !.ordered = lastOp.ordered]
  /\ UNCHANGED <<rawData, data, labelSegments, yRange, signalStartTimestampMs,
                 keypressStartTimestampMs, keypressSamplingRate, signalSamplingRate,
                 xDomain, draggingEdge, selectedSegmentIndex, crashed, loadVars, call>>

\* ---- inputs ----
\* Files of the round trips: also samples at 0, 3, 6; label rows that give
\* [0, 4) up and [5, 6) dn at 300 Hz and at 100 Hz, and rows out of time order.
RoundTripSignalFiles ==
  ExportSignalFiles
    \cup { SignalFile(100, Some(50), <<SignalRow(TRUE, 12), SignalRow(TRUE, 27),
                                       SignalRow(TRUE, 31)>>) }
RoundTripLabelFiles ==
  ExportLabelFiles
    \cup { LabelFile(Some(50), rate, <<LabelRow(50, "up"), LabelRow(54, "up"),
                                       LabelRow(55, "dn")>>) : rate \in {300, 100} }
    \cup { LabelFile(Some(50), 300, <<LabelRow(51, "up"), LabelRow(40, "dn"),
                                      LabelRow(53, "up")>>) }

\* the "Apply Crop" button, enabled when one of the two fields is filled
ApplyCrop(cropStart, cropEnd) ==
  /\ (cropStart # EmptyText \/ cropEnd # EmptyText)
  /\ handleApplyCrop(cropStart, cropEnd)

RECURSIVE LastTickOf(_)
LastTickOf(files) ==
  IF files = {} THEN 0
  ELSE LET f == CHOOSE x \in files : TRUE
       IN Max((Len(f.rows) - 1) * (TicksPerSecond \div f.samplingRate),
              LastTickOf(files \ {f}))
TimeInputs(files) == (0 - TimeSlack)..(LastTickOf(files) + TimeSlack)
TextInputs(files) == {Num(n) : n \in TimeInputs(files)} \cup {NaNText}

\* the pointer and keyboard events of an edge drag and of a selection
Gesture(files) ==
  \/ \E t \in TimeInputs(files), th \in 0..MaxThreshold : handleMouseDown(t, th)
  \/ \E t \in TimeInputs(files) : DragMouseMove(t)
  \/ DragMouseUp
  \/ \E key \in {"Delete", "Backspace", "Escape"} : handleKeyDown(key)

Next ==
  \/ Load(SignalFiles, LabelFiles)
  \/ resetAll
  \/ \E s \in TextInputs(SignalFiles), e \in TextInputs(SignalFiles), l \in LabelInputs :
       handleAddNewSegment(s, e, l)
  \/ \E s \in TextInputs(SignalFiles) \cup {EmptyText},
        e \in TextInputs(SignalFiles) \cup {EmptyText} : ApplyCrop(s, e)

Spec == Init /\ [][Next]_vars

NextDrag ==
  \/ Load(DragSignalFiles, DragLabelFiles)
  \/ resetAll
  \/ Gesture(DragSignalFiles)
  \/ handleExportBoth(FALSE)

SpecDrag == Init /\ [][NextDrag]_vars

\* the exported files the user has kept
KeptFiles(kind) == IF kept[kind] = None THEN {} ELSE {Val(kept[kind]).file}

NextExport ==
  \/ Load(ExportSignalFiles, ExportLabelFiles)
  \/ resetAll
  \/ \E s \in TextInputs(ExportSignalFiles), e \in TextInputs(ExportSignalFiles),
        l \in LabelInputs : handleAddNewSegment(s, e, l)
  \/ \E s \in TextInputs(ExportSignalFiles) \cup {EmptyText},
        e \in TextInputs(ExportSignalFiles) \cup {EmptyText} : ApplyCrop(s, e)
  \/ \E index \in 0..(MaxSegs - 1) : handleQuickAddSegment(index)
  \/ handleExportBoth(FALSE)

SpecExport == Init /\ [][NextExport]_vars

\* load, export and load again, with no edit
NextRoundTrip ==
  \/ Load(RoundTripSignalFiles \cup KeptFiles("signals"),
          RoundTripLabelFiles \cup KeptFiles("labels"))
  \/ resetAll
  \/ handleExportBoth(TRUE)

SpecRoundTrip == Init /\ [][NextRoundTrip]_vars

\* ---- direct calls of the Label Segment Builder ----
\* the call processFiles makes for a signal file and a label file
CallBuilder ==
  /\ call # None
  /\ Val(call).result = None
  /\ LET fullResData == DecodeRows(Val(call).signalFile)
         timeMin == IF Len(fullResData) > 0 THEN fullResData[1].timestamp ELSE 0
         timeMax == IF Len(fullResData) > 0 THEN fullResData[Len(fullResData)].timestamp ELSE 0
     IN call' = Some([Val(call) EXCEPT !.result =
                        Some(parseKeypressLabelSegmentsWithMetadata(
                               Val(call).keypressFile, Val(call).signalFile.start,
                               timeMin, timeMax))])
  /\ UNCHANGED <<rawData, data, labelSegments, error, yRange, signalStartTimestampMs,
                 keypressStartTimestampMs, keypressSamplingRate, signalSamplingRate,
                 xDomain, draggingEdge, selectedSegmentIndex, crashed, lastOp,
                 loading, reads, download, kept>>

InitBuilder ==
  /\ InitSession
  /\ call \in {Some([signalFile |-> sf, keypressFile |-> lf, result |-> None]) :
                 sf \in BuilderSignalFiles, lf \in BuilderLabelFiles}

SpecBuilder == InitBuilder /\ [][CallBuilder]_vars

\* ---- direct calls of the Sample Stream Decoder and of the header scans ----
\* What a header says about the sampling rate: a number, a text that is not
\* a number, or nothing (no such field, no such line, a line that does not
\* parse).
RateNumber(v) == [kind |-> "number", v |-> v]
RateText == [kind |-> "text", v |-> 0]
RateMissing == [kind |-> "missing", v |-> 0]
HeaderRates == {RateNumber(v) : v \in {0 - 100, 0, 100, 300}} \cup {RateText, RateMissing}

\* the signal header scan: the JSON value is taken when it is truthy
signalHeaderSamplingRate(raw) ==
  IF raw.kind = "text" \/ (raw.kind = "number" /\ raw.v # 0)
    THEN raw ELSE RateNumber(1000)

\* the label header scan: the digits before "Hz", taken when greater than 0
keypressHeaderSamplingRate(raw) ==
  IF raw.kind = "number" /\ Abs(raw.v) > 0
    THEN RateNumber(Abs(raw.v)) ELSE RateNumber(1000)

\* the samples of the lines under a stored rate; with a rate that is not a
\* number every timestamp is NaN (None)
DecodeLines(rate, rows) ==
  IF rate.kind = "number"
    THEN DecodeRows(SignalFile(rate.v, None, rows))
    ELSE LET idx == Filter([i \in 1..Len(rows) |-> i], LAMBDA i : rows[i].ok)
         IN [k \in 1..Len(idx) |-> Point(None, rows[idx[k]].A4)]

DecoderLines == {SignalRow(TRUE, 12), SignalRow(TRUE, 27), SignalRow(FALSE, 0)}
RECURSIVE SeqsUpTo(_, _)
SeqsUpTo(S, n) ==
  IF n = 0 THEN {<<>>}
  ELSE LET shorter == SeqsUpTo(S, n - 1)
       IN shorter \cup {Append(q, x) : q \in shorter, x \in S}

CallDecoder ==
  /\ call # None
  /\ Val(call).result = None
  /\ LET samplingRate == signalHeaderSamplingRate(Val(call).signalRate)
     IN call' = Some([Val(call) EXCEPT !.result =
                        Some([signalSamplingRate |-> samplingRate,
                              keypressSamplingRate |->
                                keypressHeaderSamplingRate(Val(call).keypressRate),
                              fullResData |-> DecodeLines(samplingRate, Val(call).rows)])])
  /\ UNCHANGED <<rawData, data, labelSegments, error, yRange, signalStartTimestampMs,
                 keypressStartTimestampMs, keypressSamplingRate, signalSamplingRate,
                 xDomain, draggingEdge, selectedSegmentIndex, crashed, lastOp,
                 loading, reads, download, kept>>

InitDecoder ==
  /\ InitSession
  /\ call \in {Some([signalRate |-> sr, keypressRate |-> kr, rows |-> rows, result |-> None]) :
                 sr \in HeaderRates, kr \in HeaderRates,
                 rows \in SeqsUpTo(DecoderLines, MaxLines)}

SpecDecoder == InitDecoder /\ [][CallDecoder]_vars

\* ---- recordings around the display cap: load, crop, export, insert range ----
\* A recording of n accepted rows at 300 Hz (one tick apart) whose channel
\* value changes from row to row.
Recording(n) ==
  SignalFile(TicksPerSecond, Some(0),
             [i \in 1..n |-> SignalRow(TRUE, FixedStep * (i % 9))])
RecordingCounts == (0..MaxCount) \cup {SampleCap + 1, 2 * SampleCap}
\* the crops tried on a recording of n samples: none, or the range that
\* leaves out `s` samples at the start and `e` samples at the end
RecordingCrops == {None} \cup {Some(<<1, 0>>), Some(<<0, 1>>), Some(<<1, 1>>)}

\* processFiles on the recording, handleApplyCrop with the range, then what
\* handleExportSignals writes and what handleAddNewSegment answers to a
\* segment over the last two samples.  The result keeps the sizes and the
\* ends of the sequences, not the sequences.
RecordingResult(count, crop) ==
  LET file == Recording(count)
      fullResData == DecodeRows(file)
      sampledData == Decimate(fullResData)
      last == IF Len(fullResData) > 0 THEN fullResData[Len(fullResData)].timestamp ELSE 0
      startTime == IF crop = None THEN None ELSE Some(Val(crop)[1])
      endTime == IF crop = None THEN None ELSE Some(last - Val(crop)[2])
      cropped == /\ crop # None /\ Len(fullResData) > 0
                 /\ CropError(fullResData, startTime, endTime) = None
      raw == IF cropped THEN CropSamples(fullResData, Val(startTime), Val(endTime))
             ELSE fullResData
      shown == IF cropped THEN Decimate(raw) ELSE sampledData
      export == handleExportSignals(raw, file.start, file.samplingRate)
      rows == IF export.file = None THEN <<>> ELSE Val(export.file).rows
  IN [loaded |-> Len(fullResData),
      shownAtLoad |-> Len(sampledData),
      cropped |-> cropped,
      rawCount |-> Len(raw),
      rawFirst |-> IF Len(raw) > 0 THEN raw[1] ELSE Point(0, 0),
      rawLast |-> IF Len(raw) > 0 THEN raw[Len(raw)] ELSE Point(0, 0),
      shown |-> Len(shown),
      shownLast |-> IF Len(shown) > 0 THEN shown[Len(shown)] ELSE Point(0, 0),
      exported |-> Len(rows),
      exportFirst |-> IF Len(rows) > 0 THEN rows[1].A4 ELSE 0,
      exportLast |-> IF Len(rows) > 0 THEN rows[Len(rows)].A4 ELSE 0,
      insertError |->
        IF Len(shown) = 0 THEN None
        ELSE InsertError(Num(raw[Len(raw)].timestamp - 1),
                         Num(raw[Len(raw)].timestamp), "up",
                         shown[1].timestamp, shown[Len(shown)].timestamp)]

CallRecording ==
  /\ call # None
  /\ Val(call).result = None
  /\ call' = Some([Val(call) EXCEPT !.result =
                     Some(RecordingResult(Val(call).count, Val(call).crop))])
  /\ UNCHANGED <<rawData, data, labelSegments, error, yRange, signalStartTimestampMs,
                 keypressStartTimestampMs, keypressSamplingRate, signalSamplingRate,
                 xDomain, draggingEdge, selectedSegmentIndex, crashed, lastOp,
                 loading, reads, download, kept>>

InitRecording ==
  /\ InitSession
  /\ call \in {Some([count |-> n, crop |-> c, result |-> None]) :
                 n \in RecordingCounts, c \in RecordingCrops}

SpecRecording == InitRecording /\ [][CallRecording]_vars

\* ======================= properties =======================
SortedByStart(segs) == \A i \in 1..(Len(segs) - 1) : segs[i].start <= segs[i + 1].start
PositiveWidth(segs) == \A i \in 1..Len(segs) : segs[i].end > segs[i].start
NonOverlapping(segs) ==
  \A i \in 1..Len(segs), j \in 1..Len(segs) :
    i # j => (segs[i].end <= segs[j].start \/ segs[j].end <= segs[i].start)
SegSet(segs) == {segs[i] : i \in 1..Len(segs)}

\* Every load of the files above gives a sorted list of non-overlapping
\* segments of positive width: the editing starts from a valid list.
LoadedListValid ==
  lastOp.op = "Load" =>
    SortedByStart(labelSegments) /\ PositiveWidth(labelSegments) /\ NonOverlapping(labelSegments)

\* C1: after any sequence of Insert, Delete, BoundaryDrag updates and Crop from
\* a valid list, the list is sorted ascending by start and every segment has
\* end > start.
C1_SortedPositiveWidth == SortedByStart(labelSegments) /\ PositiveWidth(labelSegments)

\* C2: after any sequence of Insert, Delete, BoundaryDrag updates and Crop from
\* a sorted non-overlapping list, any two distinct segments a, b have
\* a.end <= b.start or b.end <= a.start.
C2_PairwiseNonOverlapping == NonOverlapping(labelSegments)

\* C3: after every BoundaryDrag update on segment i the dragged boundary is
\* shared with the neighbour: end edge and i not last => segments[i].end =
\* segments[i+1].start; start edge and i > 0 => segments[i-1].end =
\* segments[i].start.
C3_DragSharesBoundary ==
  lastOp.op = "DragMove" =>
    LET d == Val(draggingEdge)
        i == d.segmentIndex + 1
    IN /\ (d.edge = "end" /\ i < Len(labelSegments))
            => labelSegments[i].end = labelSegments[i + 1].start
       /\ (d.edge = "start" /\ i > 1)
            => labelSegments[i - 1].end = labelSegments[i].start

\* an end-edge drag update was applied to a segment that has a successor
C3_Witness ==
  /\ lastOp.op = "DragMove"
  /\ Val(draggingEdge).edge = "end"
  /\ Val(draggingEdge).segmentIndex + 1 < Len(labelSegments)

\* a start-edge drag update was applied to a segment that has a predecessor
C3_WitnessStartEdge ==
  /\ lastOp.op = "DragMove"
  /\ Val(draggingEdge).edge = "start"
  /\ Val(draggingEdge).segmentIndex > 0

\* C4: after any BoundaryDrag update the dragged segment and the neighbour
\* whose boundary moved with it each have width end - start >= Eps (0.01 s).
C4_DragKeepsMinWidth ==
  lastOp.op = "DragMove" =>
    LET d == Val(draggingEdge)
        i == d.segmentIndex + 1
        Wide(k) == labelSegments[k].end - labelSegments[k].start >= Eps
    IN /\ Wide(i)
       /\ (d.edge = "end" /\ i < Len(labelSegments)) => Wide(i + 1)
       /\ (d.edge = "start" /\ i > 1) => Wide(i - 1)

\* The resolution of one existing segment X against an inserted [s, e), as
\* the claim C5 states it.
C5_Pieces(X, s, e) ==
  IF ~(X.start < e /\ s < X.end) THEN {X}
  ELSE IF s <= X.start /\ e >= X.end THEN {}
  ELSE IF X.start < s /\ X.end > e
    THEN {Seg(X.start, s, X.label), Seg(e, X.end, X.label)}
  ELSE IF s <= X.start THEN {Seg(e, X.end, X.label)}
  ELSE {Seg(X.start, s, X.label)}
C5_Expected(segs, s, e, L) ==
  UNION {C5_Pieces(segs[i], s, e) : i \in 1..Len(segs)} \cup {Seg(s, e, L)}

\* C5: an accepted Insert of N = [s, e) with label L removes the segments N
\* covers, splits a segment that strictly contains N into [X.start, s) and
\* [e, X.end), truncates a segment overlapped on one side to N's boundary,
\* leaves the other segments unchanged, adds N, and gives a list sorted by
\* start.
C5_InsertResolvesOverlaps ==
  [][lastOp'.op = "InsertOk" =>
       LET expected == C5_Expected(labelSegments, lastOp'.a, lastOp'.b, lastOp'.label)
       IN /\ SegSet(labelSegments') = expected
          /\ Len(labelSegments') = Cardinality(expected)
          /\ SortedByStart(labelSegments')]_vars

\* the split case: [1, 2) dn inserted into the single segment [0, 3) up
C5_Witness ==
  /\ lastOp.op = "InsertOk" /\ lastOp.n = 1
  /\ lastOp.a = 1 /\ lastOp.b = 2 /\ lastOp.label = "dn"
  /\ labelSegments = <<Seg(0, 1, "up"), Seg(1, 2, "dn"), Seg(2, 3, "up")>>

\* C6: an accepted Insert that repeats the (start, end, label) of the accepted
\* Insert just before it leaves the segment list as it is.
C6_InsertIdempotent ==
  [][(/\ lastOp.op = "InsertOk" /\ lastOp'.op = "InsertOk"
      /\ lastOp'.a = lastOp.a /\ lastOp'.b = lastOp.b /\ lastOp'.label = lastOp.label)
       => labelSegments' = labelSegments]_vars

\* the same insert was accepted twice in a row, into a list it had changed
C6_Witness ==
  /\ lastOp.op = "InsertOk" /\ lastOp.rep
  /\ Len(labelSegments) >= 2

\* C7: an Insert or Crop whose input has start = end, start > end or a bound
\* outside the data range (or, for Insert, a blank label) is rejected with an
\* error, and samples, segments and both absolute starts are unchanged.
C7_InvalidInputRejected ==
  [][(/\ lastOp'.op \in {"InsertOk", "InsertRejected", "InsertNoData", "CropOk", "CropRejected"}
      /\ lastOp'.cls \cap {"equal", "reversed", "outside", "blank"} # {})
       => /\ lastOp'.op \in {"InsertRejected", "CropRejected"}
          /\ error' # None
          /\ UNCHANGED <<rawData, labelSegments, signalStartTimestampMs,
                         keypressStartTimestampMs>>]_vars

\* an insert with start = end, inside the data range and with a label, was
\* rejected while there were segments
C7_Witness ==
  /\ lastOp.op = "InsertRejected" /\ lastOp.cls = {"equal"}
  /\ labelSegments # <<>>
  /\ error # None

\* a crop with reversed bounds inside the data range was rejected
C7_WitnessCrop ==
  /\ lastOp.op = "CropRejected" /\ lastOp.cls = {"reversed", "nosample"}
  /\ labelSegments # <<>>

\* C8: after an accepted Crop the first retained sample has timestamp 0 and
\* every retained segment has 0 <= start < end <= timestamp of the last
\* retained sample.
C8_CropZeroBased ==
  lastOp.op = "CropOk" =>
    /\ rawData[1].timestamp = 0
    /\ \A i \in 1..Len(labelSegments) :
         /\ 0 <= labelSegments[i].start
         /\ labelSegments[i].start < labelSegments[i].end
         /\ labelSegments[i].end <= rawData[Len(rawData)].timestamp

\* The image of the samples and of the segments under Crop(a, b), as the
\* claim C9 states it.
RECURSIVE C9_Samples(_, _, _)
C9_Samples(samples, a, b) ==
  IF samples = <<>> THEN <<>>
  ELSE LET p == Head(samples)
       IN (IF a <= p.timestamp /\ p.timestamp <= b
           THEN <<Point(p.timestamp - a, p.A4)>> ELSE <<>>)
          \o C9_Samples(Tail(samples), a, b)
RECURSIVE C9_Segments(_, _, _)
C9_Segments(segs, a, b) ==
  IF segs = <<>> THEN <<>>
  ELSE LET x == Head(segs)
       IN (IF Min(x.end, b) <= Max(x.start, a) THEN <<>>
           ELSE <<Seg(Max(x.start, a) - a, Min(x.end, b) - a, x.label)>>)
          \o C9_Segments(Tail(segs), a, b)

\* C9: an accepted Crop(a, b) keeps exactly the samples with a <= t <= b, at
\* t - a with their channel values, and maps each segment [s, e) to
\* [max(s, a) - a, min(e, b) - a), dropping it when min(e, b) <= max(s, a);
\* the order of samples and segments is kept.
C9_CropImage ==
  [][lastOp'.op = "CropOk" =>
       /\ rawData' = C9_Samples(rawData, lastOp'.a, lastOp'.b)
       /\ labelSegments' = C9_Segments(labelSegments, lastOp'.a, lastOp'.b)]_vars

\* Crop(1, 2) of samples at 0..3 kept the samples at 1 and 2 and one segment,
\* clipped to the crop range and shifted by -1
C9_Witness ==
  /\ lastOp.op = "CropOk" /\ lastOp.a = 1 /\ lastOp.b = 2 /\ lastOp.n = 1
  /\ rawData = <<Point(0, 7), Point(1, 6)>>
  /\ labelSegments = <<Seg(0, 1, "up")>>

\* C10: a rejected Crop (non-numeric bound, start >= end, bound outside the
\* data, no sample in range) changes none of samples, decimated samples,
\* segments, absolute starts, display range and view window; an accepted Crop
\* replaces all of them by their cropped values in the same step.
C10_CropAtomic ==
  [][lastOp'.op \in {"CropOk", "CropRejected"} =>
       IF lastOp'.cls # {}
       THEN /\ lastOp'.op = "CropRejected"
            /\ UNCHANGED <<rawData, data, labelSegments, signalStartTimestampMs,
                           keypressStartTimestampMs, yRange, xDomain>>
       ELSE LET a == lastOp'.a
                b == lastOp'.b
                Kept(t) == a <= t /\ t <= b
                Shifted(old, new) == IF old = None THEN new = None
                                     ELSE new = Some(Val(old) + a)
            IN /\ lastOp'.op = "CropOk"
               /\ {rawData'[i].timestamp : i \in 1..Len(rawData')}
                    = {rawData[i].timestamp - a : i \in {j \in 1..Len(rawData) :
                                                          Kept(rawData[j].timestamp)}}
               /\ data' = Decimate(rawData')
               /\ labelSegments' = C9_Segments(labelSegments, a, b)
               /\ Shifted(signalStartTimestampMs, signalStartTimestampMs')
               /\ Shifted(keypressStartTimestampMs, keypressStartTimestampMs')
               /\ yRange' = <<MinA4(rawData'), MaxA4(rawData')>>
               /\ xDomain' = <<rawData'[1].timestamp,
                               rawData'[1].timestamp
                                 + Min(rawData'[Len(rawData')].timestamp
                                         - rawData'[1].timestamp, ViewWindow)>>]_vars

\* an accepted crop with a positive offset dropped a segment and kept another
C10_Witness ==
  /\ lastOp.op = "CropOk" /\ lastOp.a > 0
  /\ lastOp.n > Len(labelSegments) /\ Len(labelSegments) > 0

\* a crop was rejected because no sample lies in the range
C10_WitnessNoSample ==
  /\ lastOp.op = "CropRejected" /\ lastOp.cls = {"nosample"}

C11_WitnessBoth ==
  /\ lastOp.op = "CropOk" /\ lastOp.a > 0
  /\ signalStartTimestampMs = Some(50 + lastOp.a)
  /\ keypressStartTimestampMs = Some(49 + lastOp.a)

\* clipping the segments to the sample range leaves none with end > start
C14_NothingInRange ==
  \A i \in 1..Len(labelSegments) :
    Min(labelSegments[i].end, rawData[Len(rawData)].timestamp)
      <= Max(labelSegments[i].start, rawData[1].timestamp)

C14_WitnessNoLabelStart ==
  /\ lastOp.op = "ExportBoth"
  /\ signalStartTimestampMs # None /\ keypressStartTimestampMs = None
  /\ ~C14_NothingInRange
  /\ Val(download).signals # None /\ Val(download).labels = None

\* both exports were rejected for a null signal start
C14_WitnessNoSignalStart ==
  /\ lastOp.op = "ExportBoth"
  /\ signalStartTimestampMs = None
  /\ Val(download).signals = None /\ Val(download).labels = None
  /\ error = Some("Missing timestamp metadata for export")

\* both files were handed over
C14_WitnessExported ==
  /\ lastOp.op = "ExportBoth"
  /\ Val(download).signals # None /\ Val(download).labels # None

\* two segment lists with the same labels in the same order whose starts
\* and ends differ by at most d
C15_Similar(a, b, d) ==
  /\ Len(a) = Len(b)
  /\ \A i \in 1..Len(a) : /\ a[i].label = b[i].label
                           /\ Abs(a[i].start - b[i].start) <= d
                           /\ Abs(a[i].end - b[i].end) <= d

\* this step ends a load that reads back the kept label file against the
\* signal it was exported with
C15_LabelsReadBack ==
  /\ lastOp'.op = "Load" /\ reads # None /\ kept.labels # None
  /\ Val(reads).keypressFile = Val(kept.labels).file
  /\ rawData' = Val(kept.labels).from.rawData
  /\ signalStartTimestampMs' = Val(kept.labels).from.signalStartTimestampMs

\* this step ends a load that reads back the kept signal file
C15_SignalsReadBack ==
  /\ lastOp'.op = "Load" /\ reads # None /\ kept.signals # None
  /\ Val(reads).signalFile = Val(kept.signals).file

\* C15 (as stated): load, export without edits, load the exported label file
\* against the same signal: as many segments, the same labels in the same
\* order, starts and ends within one label sample interval of the original;
\* load the exported signal: as many samples with the same channel values.
C15_RoundTripAsStated ==
  [][/\ C15_LabelsReadBack =>
          C15_Similar(Val(kept.labels).from.labelSegments, labelSegments',
                      TicksPerSecond \div Val(kept.labels).from.keypressSamplingRate)
     /\ C15_SignalsReadBack =>
          /\ Len(rawData') = Len(Val(kept.signals).from.rawData)
          /\ \A i \in 1..Len(rawData') :
               rawData'[i].A4 = Val(kept.signals).from.rawData[i].A4]_vars

\* C15 (amended): for a label file whose rows are in time order, the label
\* round trip gives as many segments, the same labels in the same order and
\* starts and ends within one label sample interval of the original; the
\* signal round trip gives as many samples, each channel value being the
\* original rounded to the six decimals the export writes.
C15_RoundTripAmended ==
  [][/\ (C15_LabelsReadBack /\ Val(kept.labels).from.ordered) =>
          C15_Similar(Val(kept.labels).from.labelSegments, labelSegments',
                      TicksPerSecond \div Val(kept.labels).from.keypressSamplingRate)
     /\ C15_SignalsReadBack =>
          /\ Len(rawData') = Len(Val(kept.signals).from.rawData)
          /\ \A i \in 1..Len(rawData') :
               /\ rawData'[i].A4 % FixedStep = 0
               /\ 2 * Abs(rawData'[i].A4 - Val(kept.signals).from.rawData[i].A4)
                    <= FixedStep]_vars

\* the exported labels of [0, 4) up, [5, 6) dn at 300 Hz were read back: the
\* end of the first segment moved by one sample interval
C15_Witness ==
  /\ lastOp.op = "Load" /\ lastOp.rt = "labels"
  /\ Val(kept.labels).from.labelSegments = <<Seg(0, 4, "up"), Seg(5, 6, "dn")>>
  /\ labelSegments = <<Seg(0, 3, "up"), Seg(5, 6, "dn")>>

\* an exported signal was read back: the values 12 and 27 came back as 10, 30
C15_WitnessSignals ==
  /\ lastOp.op = "Load" /\ lastOp.rt = "signals"
  /\ Len(rawData) = 2 /\ rawData[1].A4 = 10 /\ rawData[2].A4 = 30

\* C16: a drag that has begun reaches its end: pointer-up returns the drag
\* state to idle and leaves the list as of the last update; and whatever
\* happened since the pointer-down (Reset, Delete, Load), a pointer-move of
\* the drag acts on a segment index that is in the list and raises nothing.
C16_DragReachesEnd ==
  [][/\ lastOp'.op = "MouseUp" =>
          /\ draggingEdge' = None
          /\ labelSegments' = labelSegments
     /\ (draggingEdge # None /\ lastOp'.op \in {"DragMove", "DragThrow"}) =>
          /\ Val(draggingEdge).segmentIndex < Len(labelSegments)
          /\ ~crashed']_vars

\* the part of C16 about pointer-up alone
C16_MouseUpEndsDrag ==
  [][lastOp'.op = "MouseUp" =>
       draggingEdge' = None /\ labelSegments' = labelSegments]_vars

\* C17: Delete (or Backspace) with the segment at index k selected gives the
\* previous list without element k, every other segment unchanged and in
\* the same order; with an index that is not in the list, or with no
\* selection, the list is unchanged.
C17_DeleteRemovesOnlySelected ==
  [][/\ lastOp'.op = "Delete" =>
          LET k == Val(selectedSegmentIndex)
          IN IF k < Len(labelSegments)
             THEN /\ Len(labelSegments') = Len(labelSegments) - 1
                  /\ \A i \in 1..Len(labelSegments') :
                       labelSegments'[i] = labelSegments[IF i <= k THEN i ELSE i + 1]
             ELSE labelSegments' = labelSegments
     /\ lastOp'.op = "KeyIgnored" =>
          selectedSegmentIndex = None /\ labelSegments' = labelSegments]_vars

\* the middle one of three contiguous segments was deleted: a gap is left
C17_Witness ==
  /\ lastOp.op = "Delete" /\ lastOp.a = 1 /\ lastOp.b = 3
  /\ Len(labelSegments) = 2
  /\ labelSegments[1].end < labelSegments[2].start

\* Delete with a selection that a later load left outside the list
C17_WitnessOutOfList ==
  /\ lastOp.op = "Delete" /\ lastOp.a >= lastOp.b /\ lastOp.b > 0
  /\ Len(labelSegments) = lastOp.b

\* a key pressed with no selection, segments present
C17_WitnessNoSelection ==
  lastOp.op = "KeyIgnored" /\ Len(labelSegments) > 0

\* the samples, the segments and the metadata of both streams
C18_Loaded ==
  <<rawData, data, labelSegments, yRange, signalStartTimestampMs,
    keypressStartTimestampMs, keypressSamplingRate, signalSamplingRate>>

\* C18: the load starts both reads and parses nothing until both have
\* completed, in either order: the step that starts the load and every step
\* taken while a read is pending leave the samples, the segments and the
\* metadata as they are, except the step that completes the last pending
\* read; a failed read ends the load with an error and changes none of them.
C18_LoadWaitsForBothReads ==
  [][/\ lastOp'.op = "LoadStart" =>
          /\ UNCHANGED C18_Loaded
          /\ Val(reads').pending = {"signal", "keypress"}
     /\ (reads # None /\ lastOp'.op # "Load") => UNCHANGED C18_Loaded
     /\ lastOp'.op = "Load" =>
          /\ reads # None /\ Cardinality(Val(reads).pending) = 1
          /\ reads' = None /\ ~loading'
     /\ lastOp'.op = "LoadFailed" =>
          /\ UNCHANGED C18_Loaded
          /\ error' # None /\ reads' = None /\ ~loading']_vars

\* a read failed after an earlier load had set the metadata of both streams
C18_Witness ==
  /\ lastOp.op = "LoadFailed" /\ error # None
  /\ signalStartTimestampMs # None /\ signalSamplingRate = 100

\* the label file's read completed first, the signal's is pending
C18_WitnessLabelFirst ==
  lastOp.op = "ReadDone" /\ reads # None /\ Val(reads).pending = {"signal"}

\* the signal file's read completed first, the label file's is pending
C18_WitnessSignalFirst ==
  lastOp.op = "ReadDone" /\ reads # None /\ Val(reads).pending = {"keypress"}

\* a read of the first load failed: the session is as it was constructed
C18_WitnessFirstLoadFailed ==
  lastOp.op = "LoadFailed" /\ rawData = <<>> /\ signalStartTimestampMs = None

\* ---- the direct calls of the Label Segment Builder ----
Called == call # None /\ Val(call).result # None
CallSignal == Val(call).signalFile
CallLabels == Val(call).keypressFile
CallResult == Val(Val(call).result)

\* The scenario of C12 at the model's scale, where the sample interval of
\* both streams is one tick: a signal of 3 rows that starts at T = 1, label
\* rows at T, T + 1, T + 2 labelled up, up, dn.
C12_Scenario ==
  /\ Called
  /\ CallSignal = SignalFile(300, Some(1), <<SignalRow(TRUE, 5), SignalRow(TRUE, 7),
                                             SignalRow(TRUE, 6)>>)
  /\ CallLabels # EmptyLabelFile
  /\ CallLabels.samplingRate = 300
  /\ CallLabels.rows = <<LabelRow(1, "up"), LabelRow(2, "up"), LabelRow(3, "dn")>>

\* C12 (as stated): for a signal of 3 rows and label rows at T, T + 1, T + 2
\* intervals labelled up, up, down, the Label Segment Builder returns exactly
\* [0, 2 intervals) up and [2 intervals, 3 intervals) down.
C12_ScenarioAsStated ==
  C12_Scenario => CallResult.segments = <<Seg(0, 2, "up"), Seg(2, 3, "dn")>>

\* C12 (amended): in that scenario the Label Segment Builder returns exactly
\* one segment, [0, 1 interval) up: the up run ends at its last row, and the
\* down run, whose only row is at the last sample, is clipped to the signal
\* range, has no width left and is dropped.
C12_ScenarioAmended ==
  C12_Scenario => CallResult.segments = <<Seg(0, 1, "up")>>

\* the scenario was run, with a label file that states its recording start
C12_Witness ==
  /\ C12_Scenario
  /\ CallLabels.start = Some(1)
  /\ Len(CallResult.segments) = 1

\* C13: the Label Segment Builder returns an empty segment list when the
\* label text is empty, when the signal's absolute start is null, or when the
\* signal range has timeMax <= timeMin (a signal of zero or one sample).
C13_NothingToAlign ==
  Called =>
    ((\/ CallLabels = EmptyLabelFile
      \/ CallSignal.start = None
      \/ Len(CallSignal.rows) <= 1)
       => CallResult.segments = <<>>)

\* a call with a null signal start and label rows at times 0, 1, 2, which
\* lie in the signal's range of relative times
C13_Witness ==
  /\ Called
  /\ CallSignal.start = None
  /\ CallLabels # EmptyLabelFile
  /\ CallLabels.rows = <<LabelRow(0, "up"), LabelRow(1, "dn"), LabelRow(2, "dn")>>
  /\ CallResult.segments = <<>>

\* a call with a signal of one sample and a label row at that sample
C13_WitnessOneSample ==
  /\ Called
  /\ Len(CallSignal.rows) = 1 /\ CallSignal.start = Some(1)
  /\ CallLabels # EmptyLabelFile
  /\ CallLabels.rows = <<LabelRow(1, "up")>>
  /\ CallResult.segments = <<>>

\* a call with an empty label text
C13_WitnessEmptyText ==
  Called /\ CallLabels = EmptyLabelFile /\ Len(CallSignal.rows) = 3

\* The accepted rows of a label file (a label and an absolute time), as
\* relative times, and their maximal runs, as the claim C19 states them.
C19_Accepted(file, sigStart) ==
  LET ok == SelectSeq(file.rows, LAMBDA r :
                        r.label # "" /\ (r.ts # None \/ (file.start # None /\ r.elapsed # None)))
  IN [i \in 1..Len(ok) |->
        [t |-> (IF ok[i].ts # None THEN Val(ok[i].ts)
                ELSE Val(file.start) + Val(ok[i].elapsed)) - sigStart,
         label |-> ok[i].label]]
RECURSIVE C19_Runs(_, _)
C19_Runs(acc, interval) ==
  IF acc = <<>> THEN <<>>
  ELSE LET k == CHOOSE n \in 1..Len(acc) :
                  /\ \A i \in 1..n : acc[i].label = acc[1].label
                  /\ (n = Len(acc) \/ acc[n + 1].label # acc[1].label)
       IN <<Seg(acc[1].t, Max(acc[k].t, acc[1].t + interval), acc[1].label)>>
          \o C19_Runs(SubSeq(acc, k + 1, Len(acc)), interval)
C19_Clipped(runs, timeMin, timeMax) ==
  LET clip == [i \in 1..Len(runs) |->
                 Seg(Max(timeMin, runs[i].start), Min(timeMax, runs[i].end), runs[i].label)]
  IN SelectSeq(clip, LAMBDA x : x.end > x.start)

\* C19: the Label Segment Builder produces one segment per maximal run of
\* consecutive accepted rows with the same label, in the order of the runs;
\* before clipping to the signal range its start is the relative time of the
\* run's first row and its end is max(relative time of the run's last row,
\* start + 1/samplingRate of the label file).
C19_OneSegmentPerRun ==
  (/\ Called
   /\ CallLabels # EmptyLabelFile
   /\ CallSignal.start # None
   /\ Len(CallSignal.rows) > 1)
    => CallResult.segments =
         C19_Clipped(C19_Runs(C19_Accepted(CallLabels, Val(CallSignal.start)),
                              TicksPerSecond \div CallLabels.samplingRate),
                     0, (Len(CallSignal.rows) - 1) * (TicksPerSecond \div CallSignal.samplingRate))

\* a run of two up rows with a line without a label between them, then a dn
\* row: two segments, the first from the first to the last row of its run
C19_Witness ==
  /\ Called
  /\ Len(CallSignal.rows) = 3 /\ CallSignal.start = Some(1)
  /\ CallLabels # EmptyLabelFile
  /\ CallLabels.samplingRate = 300
  /\ CallLabels.rows = <<LabelRow(1, "up"), ShortLabelRow, LabelRow(2, "up")>>
  /\ CallResult.segments = <<Seg(0, 1, "up")>>

\* a row timed by the recording start and its elapsed time opens a run
C19_WitnessElapsed ==
  /\ Called
  /\ Len(CallSignal.rows) = 3 /\ CallSignal.start = Some(1)
  /\ CallLabels # EmptyLabelFile
  /\ CallLabels.samplingRate = 300 /\ CallLabels.start = Some(1)
  /\ CallLabels.rows = <<ElapsedRow(1, "up"), LabelRow(3, "dn")>>
  /\ CallResult.segments = <<Seg(1, 2, "up")>>

\* the accepted rows of the call have non-decreasing absolute times
C20_RowsInTimeOrder ==
  LET acc == C19_Accepted(CallLabels, 0)
  IN \A i \in 1..(Len(acc) - 1) : acc[i].t <= acc[i + 1].t

\* C20: every segment the Label Segment Builder returns has
\* timeMin <= start < end <= timeMax of the signal range passed in; for label
\* rows with non-decreasing timestamps the returned list is sorted by start
\* and pairwise non-overlapping, also after the expansion of short runs to
\* one sample interval.
C20_InRangeSortedDisjoint ==
  (Called /\ CallLabels # EmptyLabelFile) =>
    LET segs == CallResult.segments
        timeMax == (Len(CallSignal.rows) - 1) * (TicksPerSecond \div CallSignal.samplingRate)
    IN /\ \A i \in 1..Len(segs) :
            0 <= segs[i].start /\ segs[i].start < segs[i].end /\ segs[i].end <= timeMax
       /\ C20_RowsInTimeOrder => (SortedByStart(segs) /\ NonOverlapping(segs))

\* the first half of C20 alone: every returned segment lies in the signal
\* range and has positive width
C20_InRange ==
  (Called /\ CallLabels # EmptyLabelFile) =>
    LET segs == CallResult.segments
        timeMax == (Len(CallSignal.rows) - 1) * (TicksPerSecond \div CallSignal.samplingRate)
    IN \A i \in 1..Len(segs) :
         0 <= segs[i].start /\ segs[i].start < segs[i].end /\ segs[i].end <= timeMax

\* an export, a QuickAppend and an accepted insert ran with both starts known
C11_WitnessOthers ==
  /\ lastOp.op \in {"ExportBoth", "QuickAdd", "InsertOk"}
  /\ signalStartTimestampMs # None /\ keypressStartTimestampMs # None

\* ---- the direct calls of the Sample Stream Decoder ----
Decoded == call # None /\ Val(call).result # None
DecoderResult == Val(Val(call).result)

\* C21: under a sampling rate that is a number, the i-th accepted row
\* (counting accepted rows only, from 0) gets the relative timestamp
\* i * (1 / samplingRate), also when blank or short lines lie between
\* accepted rows.
C21_TimestampByAcceptedRow ==
  (Decoded /\ DecoderResult.signalSamplingRate.kind = "number") =>
    LET sampleInterval == TicksPerSecond \div DecoderResult.signalSamplingRate.v
        samples == DecoderResult.fullResData
    IN \A k \in 1..Len(samples) : samples[k].timestamp = (k - 1) * sampleInterval

\* C26: the sampling rates stored for the signal stream and for the label
\* stream are numbers greater than 0, whatever the headers carry.
C26_RatesPositive ==
  Decoded =>
    /\ DecoderResult.signalSamplingRate.kind = "number"
    /\ DecoderResult.signalSamplingRate.v > 0
    /\ DecoderResult.keypressSamplingRate.kind = "number"
    /\ DecoderResult.keypressSamplingRate.v > 0

\* the label stream's half of C26 alone
C26_KeypressRatePositive ==
  Decoded =>
    /\ DecoderResult.keypressSamplingRate.kind = "number"
    /\ DecoderResult.keypressSamplingRate.v > 0

\* ---- the recordings around the display cap ----
Measured == call # None /\ Val(call).result # None
Measure == Val(Val(call).result)

\* C22: the display sequence built at load and at crop never has more than
\* the cap of 10,000 points, for every number of full-resolution samples.
C22_DisplayWithinCap ==
  Measured => (Measure.shownAtLoad <= SampleCap /\ Measure.shown <= SampleCap)

\* the crop of the call lies inside the recording's full-resolution range
C23_CropInRange ==
  /\ Val(call).crop # None
  /\ Val(call).count > Val(Val(call).crop)[1] + Val(Val(call).crop)[2] + 1

\* C23: decimation never affects the authoritative sequence: after the load
\* and the crop the full-resolution sequence holds every accepted row inside
\* the crop range, the crop is accepted exactly when its range lies inside
\* the full-resolution range, and the signal export writes one row per
\* full-resolution sample, in order, whatever the decimation factor.
C23_DecimationLeavesSamples ==
  Measured =>
    LET n == Val(call).count
        crop == Val(call).crop
    IN /\ Measure.loaded = n
       /\ Measure.cropped = C23_CropInRange
       /\ Measure.rawCount =
            IF Measure.cropped THEN n - Val(crop)[1] - Val(crop)[2] ELSE n
       /\ Measure.rawCount > 0 =>
            /\ Measure.rawFirst.timestamp = 0
            /\ Measure.rawLast.timestamp = Measure.rawCount - 1
            /\ Measure.exported = Measure.rawCount
            /\ Measure.exportFirst = Measure.rawFirst.A4
            /\ Measure.exportLast = Measure.rawLast.A4

\* a recording of twice the cap was cropped by one sample at each end and
\* exported: every second sample is displayed, every sample is written
C23_Witness ==
  /\ Measured /\ Measure.cropped
  /\ Measure.loaded = 2 * SampleCap /\ Measure.shownAtLoad = SampleCap
  /\ Measure.exported = 2 * SampleCap - 2

\* a recording of twice the cap was exported as loaded
C23_WitnessHalved ==
  /\ Measured /\ ~Measure.cropped
  /\ Measure.shown = SampleCap /\ Measure.exported = 2 * SampleCap

\* C30: the range Insert checks against is the first and last timestamp of
\* the full-resolution samples: the segment over the last two
\* full-resolution samples, with a label, is accepted for every sample count
\* and decimation factor.
C30_InsertRangeIsFullRange ==
  (Measured /\ Measure.rawCount >= 2) =>
    /\ Measure.shownLast.timestamp = Measure.rawLast.timestamp
    /\ Measure.insertError = None

\* ---- label export ----
\* the segments clipped to the full-resolution sample range, those left
\* with a width
C24_Clipped ==
  LET dataStart == rawData[1].timestamp
      dataEnd == rawData[Len(rawData)].timestamp
      clip(seg) == Seg(Max(seg.start, dataStart), Min(seg.end, dataEnd), seg.label)
  IN SelectSeq([i \in 1..Len(labelSegments) |-> clip(labelSegments[i])],
               LAMBDA seg : seg.end > seg.start)

\* rows of a segment: max(1, ceil(duration / interval))
C24_RowsOf(seg, interval) ==
  LET d == seg.end - seg.start
      c == IF d % interval = 0 THEN d \div interval ELSE d \div interval + 1
  IN IF c < 1 THEN 1 ELSE c

\* rows of the segments before the j-th
RECURSIVE C24_RowsBefore(_, _, _)
C24_RowsBefore(segs, j, interval) ==
  IF j <= 1 THEN 0
  ELSE C24_RowsBefore(segs, j - 1, interval) + C24_RowsOf(segs[j - 1], interval)

\* C24: the label export writes, for each clipped segment in list order,
\* max(1, ceil(duration / interval)) rows; row i of a segment has the
\* absolute time signal start + segment start + i * interval, the elapsed
\* time counted from the label stream's start, and the segment's label;
\* the sample numbers run from 0 across all segments.
C24_LabelExportRows ==
  (lastOp.op = "ExportBoth" /\ Val(download).labels # None) =>
    LET rows == Val(Val(download).labels).rows
        segs == C24_Clipped
        interval == TicksPerSecond \div keypressSamplingRate
    IN /\ Len(rows) = C24_RowsBefore(segs, Len(segs) + 1, interval)
       /\ \A j \in 1..Len(segs) :
            \A i \in 0..(C24_RowsOf(segs[j], interval) - 1) :
              LET n == C24_RowsBefore(segs, j, interval) + i
                  t == Val(signalStartTimestampMs) + segs[j].start + i * interval
              IN rows[n + 1] = [sampleNumber |-> n, ts |-> Some(t),
                                elapsed |-> Some(t - Val(keypressStartTimestampMs)),
                                label |-> segs[j].label]

\* segments at 100 Hz were exported after the last one had been dragged
\* past the last sample: its rows stop at the last sample, and a segment
\* whose width is not a multiple of the interval got the rounded-up count
C24_Witness ==
  /\ lastOp.op = "ExportBoth" /\ Val(download).labels # None
  /\ keypressSamplingRate = 100
  /\ labelSegments[Len(labelSegments)].end > rawData[Len(rawData)].timestamp
  /\ \E j \in 1..Len(C24_Clipped) :
       (C24_Clipped[j].end - C24_Clipped[j].start) % 3 # 0

\* [0, 4) up and [5, 6) dn were exported at 100 Hz as loaded: two rows, one
C24_WitnessAsLoaded ==
  /\ lastOp.op = "ExportBoth" /\ Val(download).labels # None
  /\ keypressSamplingRate = 100
  /\ labelSegments = <<Seg(0, 4, "up"), Seg(5, 6, "dn")>>
  /\ Len(Val(Val(download).labels).rows) = 3

\* ---- QuickAppend ----
\* C25: QuickAppend after the end of a segment changes no sample, segment
\* or metadata, and proposes start = that end and
\* end = min(that end + 0.2 s, timeMax).
C25_QuickAppendProposal ==
  [][lastOp'.op = "QuickAdd" =>
       /\ UNCHANGED <<rawData, data, labelSegments, signalStartTimestampMs,
                      keypressStartTimestampMs, keypressSamplingRate, signalSamplingRate>>
       /\ \E i \in 1..Len(labelSegments) :
            /\ lastOp'.a = labelSegments[i].end
            /\ lastOp'.b = Min(labelSegments[i].end + QuickAddWidth,
                               data[Len(data)].timestamp)]_vars

\* the frame half of C25 alone: QuickAppend changes no sample, segment or
\* metadata
C25_QuickAppendChangesNothing ==
  [][lastOp'.op = "QuickAdd" =>
       UNCHANGED <<rawData, data, labelSegments, signalStartTimestampMs,
                   keypressStartTimestampMs, keypressSamplingRate, signalSamplingRate>>]_vars

\* ---- absolute time over a crop ----
\* C27: an accepted crop, with the signal's absolute start known, keeps the
\* absolute time (signal start + relative time) of every sample it keeps
\* and of every boundary of a kept segment that it does not clip; as this
\* holds of every crop, it holds over successive crops.
C27_CropKeepsAbsoluteTime ==
  [][(lastOp'.op = "CropOk" /\ signalStartTimestampMs # None) =>
       LET startTime == lastOp'.a
           endTime == lastOp'.b
           before == Val(signalStartTimestampMs)
           after == Val(signalStartTimestampMs')
           dropped == Cardinality({i \in 1..Len(rawData) :
                                     rawData[i].timestamp < startTime})
           survivors == SelectSeq([i \in 1..Len(labelSegments) |-> i],
                                  LAMBDA i : Min(labelSegments[i].end, endTime)
                                               > Max(labelSegments[i].start, startTime))
       IN /\ signalStartTimestampMs' # None
          /\ \A j \in 1..Len(rawData') :
               /\ after + rawData'[j].timestamp = before + rawData[j + dropped].timestamp
               /\ rawData'[j].A4 = rawData[j + dropped].A4
          /\ Len(labelSegments') = Len(survivors)
          /\ \A j \in 1..Len(survivors) :
               LET old == labelSegments[survivors[j]]
                   new == labelSegments'[j]
               IN /\ new.label = old.label
                  /\ old.start >= startTime => after + new.start = before + old.start
                  /\ old.end <= endTime => after + new.end = before + old.end]_vars

\* Crop(1, 3) then Crop(1, 2) of samples at 0..3 that start at 50: the
\* samples first at 2 and 3 are at 0 and 1 with the start at 52, and the
\* segment first at [2, 3], clipped by neither crop, is at [0, 1]
C27_Witness ==
  /\ lastOp.op = "CropOk" /\ lastOp.a = 1 /\ lastOp.b = 2
  /\ signalStartTimestampMs = Some(52)
  /\ rawData = <<Point(0, 6), Point(1, 4)>>
  /\ Len(labelSegments) = 1
  /\ labelSegments[1].start = 0 /\ labelSegments[1].end = 1

\* a first crop with a start above 0 kept a segment whose start it did not
\* clip and a segment whose end it did not clip
C27_WitnessOneCrop ==
  /\ lastOp.op = "CropOk" /\ lastOp.a > 0
  /\ signalStartTimestampMs = Some(50 + lastOp.a)
  /\ \E j \in 1..Len(labelSegments) : labelSegments[j].start > 0
  /\ \E j \in 1..Len(labelSegments) :
       labelSegments[j].end < rawData[Len(rawData)].timestamp

\* ---- the selection ----
\* C28: the selected index is null or the index of a segment of the list
\* (and of the segment the user selected); Load and Reset, which replace or
\* empty the list, leave no selection behind.
C28_SelectionValid ==
  selectedSegmentIndex # None =>
    /\ Val(selectedSegmentIndex) >= 0
    /\ Val(selectedSegmentIndex) < Len(labelSegments)

\* ---- segments and the time range ----
\* C29: after a boundary drag every segment boundary lies within
\* [timeMin, timeMax], the first and last sample times, also when the drag
\* moves the start of the first segment or the end of the last one.
C29_DragStaysInTimeRange ==
  [][lastOp'.op = "DragMove" =>
       \A i \in 1..Len(labelSegments') :
         /\ labelSegments'[i].start >= rawData'[1].timestamp
         /\ labelSegments'[i].end <= rawData'[Len(rawData')].timestamp]_vars
====
